---- MODULE Spec2Model ----
(***************************************************************************)
(* A model of the retrieval-and-answer endpoint api/chat.js: the request   *)
(* handler, its await points (corpus load, page fetches, provider call),   *)
(* and the pure functions it is built from (query selection, filtering,    *)
(* scoring, ranking, context assembly).                                    *)
(*                                                                         *)
(* Strings that the code takes apart (titles, summaries, tags, sources,    *)
(* message contents) are sequences of one-character strings.  Strings the  *)
(* code only tests for emptiness or copies (urls) are TLA+ strings, ""     *)
(* standing for an absent or empty value.  Time is counted in whole days   *)
(* since the epoch.                                                        *)
(*                                                                         *)
(* The page's Ask-AI search of docs/assets/app.js is modelled next to it:  *)
(* the search box, the debounce timer, and the requests whose responses    *)
(* arrive in any order.                                                    *)
(***************************************************************************)
EXTENDS Integers, Sequences, FiniteSets, TLC

VARIABLES
    pc,         \* position of the handler: idle, load, enrich, provider, done
    now,        \* Date.now(), in days
    apiKey,     \* process.env.OPENAI_API_KEY is set
    req,        \* the request: method and the fields of req.body
    posts,      \* posts as loaded (line 40)
    reports,    \* reports as loaded (line 41)
    items,      \* the corpus built from them (line 45)
    q,          \* the query (line 50)
    ranked,     \* scored, filtered, sorted, sliced candidates (line 83)
    top,        \* ranked items (line 88)
    fetched,    \* page texts of the ranked items (line 91)
    pageFetches,\* urls fetchText was called with during this request
    blocks,     \* the context block, one entry per element (line 99)
    provCalls,  \* calls made to the completion provider during this request
    provReq,    \* messages sent to the provider (line 127)
    provReply,  \* how the provider call settled, "none" before it has
    loaded,     \* how each collection fetch settled, "none" before it has
    response,   \* what the handler sent back
    prev,       \* the request answered before this one: what it was given, when,
                \* and what it ranked and returned
    \* the page's script docs/assets/app.js
    apiBase,    \* API_BASE is set (line 5)
    listeners,  \* times renderFilters has added its listeners (lines 107-108)
    qValue,     \* els.q.value
    askChecked, \* els.askAi.checked
    askTimer,   \* a timeout set by debounceAskAi is pending (line 205)
    issued,     \* requests maybeAskAi has sent so far (line 217)
    inFlight,   \* those of them whose response has not arrived
    arrivedOk,  \* those of them whose response arrived and was shown
    answerHidden, \* els.answerSection.hidden
    answer      \* what els.answer and els.aiResults show: the request it came from

handlerVars == <<pc, now, apiKey, req, posts, reports, items, q, ranked,
          top, fetched, pageFetches, blocks, provCalls, provReq, provReply,
          loaded, response, prev>>

clientVars == <<apiBase, listeners, qValue, askChecked, askTimer, issued, inFlight,
                arrivedOk, answerHidden, answer>>

vars == <<handlerVars, clientVars>>

-----------------------------------------------------------------------------
(* Strings *)

Min(a, b) == IF a < b THEN a ELSE b
Max(a, b) == IF a > b THEN a ELSE b

Range(s) == {s[i] : i \in 1..Len(s)}

\* s.slice(0, n) for a whole number n >= 0
Slice(s, n) == SubSeq(s, 1, Min(n, Len(s)))

UpperChars == <<"A", "E", "I", "L", "O", "P">>
LowerChars == <<"a", "e", "i", "l", "o", "p">>

LowerChar(c) ==
    IF \E i \in 1..Len(UpperChars) : UpperChars[i] = c
    THEN LowerChars[CHOOSE i \in 1..Len(UpperChars) : UpperChars[i] = c]
    ELSE c

\* s.toLowerCase()
ToLowerCase(s) == [i \in 1..Len(s) |-> LowerChar(s[i])]

\* hay.includes(t)
Includes(hay, t) ==
    \E i \in 0..(Len(hay) - Len(t)) : SubSeq(hay, i + 1, i + Len(t)) = t

RECURSIVE SplitFrom(_, _, _)
\* the tokens of s from position i on, cur being the token read so far
SplitFrom(s, i, cur) ==
    IF i > Len(s)
    THEN IF cur = <<>> THEN <<>> ELSE <<cur>>
    ELSE IF s[i] = " "
         THEN (IF cur = <<>> THEN <<>> ELSE <<cur>>) \o SplitFrom(s, i + 1, <<>>)
         ELSE SplitFrom(s, i + 1, Append(cur, s[i]))

\* s.split(/\s+/).filter(Boolean)
SplitWords(s) == SplitFrom(s, 1, <<>>)

RECURSIVE Join(_)
\* arr.join(' ')
Join(arr) ==
    IF arr = <<>> THEN <<>>
    ELSE IF Len(arr) = 1 THEN arr[1]
    ELSE arr[1] \o <<" ">> \o Join(Tail(arr))

RECURSIVE CollapseSpaces(_)
\* s.replace(/\s+/g, ' ')
CollapseSpaces(s) ==
    IF Len(s) < 2 THEN s
    ELSE IF s[1] = " " /\ s[2] = " " THEN CollapseSpaces(Tail(s))
    ELSE <<s[1]>> \o CollapseSpaces(Tail(s))

-----------------------------------------------------------------------------
(* Dates: a date field is absent, a string Date cannot parse, or a day *)

\* new Date(0), which line 75 makes of an absent date, is day 0
NoDate == [kind |-> "none", day |-> 0]
BadDate == [kind |-> "bad", day |-> 0]
OnDay(d) == [kind |-> "iso", day |-> d]

\* it.added || it.date
EffectiveDate(it) == IF it.added.kind # "none" THEN it.added ELSE it.date

-----------------------------------------------------------------------------
(* Program constants of api/chat.js *)

DefaultTopK == 8
PageCap == 8000
SummaryCap == 900
ExtractCap == 1500
BonusMax == 3
DaysPerWeek == 7

sOther == <<"O", "t", "h", "e", "r">>
sPost == <<"p", "o", "s", "t">>
sReport == <<"r", "e", "p", "o", "r", "t">>

-----------------------------------------------------------------------------
(* The handler's pure parts *)

\* line 50: the query
LastUserIdx(messages) ==
    LET us == {i \in 1..Len(messages) : messages[i].role = "user"}
    IN  IF us = {} THEN 0 ELSE CHOOSE i \in us : \A j \in us : j <= i

\* a handler that takes the last message whatever its role
QueryOfLastMessage(messages) ==
    IF Len(messages) > 0 THEN messages[Len(messages)].content ELSE <<>>

\* findLast is there on every runtime that has the global fetch the handler uses
QueryOf(messages) ==
    LET u == LastUserIdx(messages)
        byRole == IF u > 0 THEN messages[u].content ELSE <<>>
        byPos == IF Len(messages) > 0 THEN messages[Len(messages)].content ELSE <<>>
    IN  IF byRole # <<>> THEN byRole
        ELSE IF byPos # <<>> THEN byPos
        ELSE <<>>

\* a tokenizer that takes the whole query as one term
QTokensWhole(query) == IF query = <<>> THEN <<>> ELSE <<ToLowerCase(query)>>

\* line 52
QTokens(query) == SplitWords(ToLowerCase(query))

\* lines 45-48: the corpus; a report's url is replaced by its url_html
BuildItems(ps, rs) ==
    [i \in 1..Len(ps) |-> [ps[i] EXCEPT !.kind = sPost]]
    \o [i \in 1..Len(rs) |-> [rs[i] EXCEPT !.kind = sReport, !.url = rs[i].url_html]]

\* lines 53-59
Within(iso, filters, t) ==
    LET days == filters.date_from_days
    IN  IF days = 0 THEN TRUE
        ELSE IF iso.kind = "none" THEN TRUE
        ELSE IF iso.kind = "bad" THEN FALSE
        ELSE iso.day >= t - days

\* line 64
Bag(it) == Range(it.tags) \cup Range(it.categories)

\* a filter that asks for some required value instead of all of them
PassesAny(it, filters, t) ==
    /\ (Len(filters.sources) > 0 =>
            (IF it.source # <<>> THEN it.source ELSE sOther) \in Range(filters.sources))
    /\ (filters.categories # <<>> => \E c \in Range(filters.categories) : c \in Bag(it))
    /\ (filters.tags # <<>> => \E tg \in Range(filters.tags) : tg \in Bag(it))
    /\ Within(EffectiveDate(it), filters, t)

\* lines 63-67: the filters, in the order the code applies them
Passes(it, filters, t) ==
    /\ (Len(filters.sources) > 0 =>
            (IF it.source # <<>> THEN it.source ELSE sOther) \in Range(filters.sources))
    /\ \A c \in Range(filters.categories) : c \in Bag(it)
    /\ \A tg \in Range(filters.tags) : tg \in Bag(it)
    /\ Within(EffectiveDate(it), filters, t)

\* lines 70-72
Haystack(it) ==
    ToLowerCase(it.title \o <<" ">>
                \o (IF it.summary # <<>> THEN it.summary ELSE it.abstract) \o <<" ">>
                \o Join(it.tags) \o <<" ">> \o it.source)

\* line 74
TermHits(it, qTokens) ==
    Cardinality({i \in 1..Len(qTokens) : Includes(Haystack(it), qTokens[i])})

\* a bonus whose weeks end a day late
RecencyBonusWeekLate(it, t) ==
    LET when == EffectiveDate(it)
    IN  IF when.kind = "bad" THEN 0
        ELSE LET days == t - when.day
             IN  Max(0, BonusMax - Min(BonusMax, (days - 1) \div DaysPerWeek))

\* lines 75-79: a missing date is the epoch, an unparseable one adds nothing
RecencyBonus(it, t) ==
    LET when == EffectiveDate(it)
    IN  IF when.kind = "bad" THEN 0
        ELSE LET days == t - when.day
             IN  Max(0, BonusMax - Min(BonusMax, days \div DaysPerWeek))

\* lines 61-81
Score(it, filters, qTokens, t) ==
    IF ~Passes(it, filters, t) THEN -1
    ELSE TermHits(it, qTokens) + RecencyBonus(it, t)

RECURSIVE InsertTiesFirst(_, _)
\* x placed before the elements of its own score
InsertTiesFirst(sorted, x) ==
    IF sorted = <<>> THEN <<x>>
    ELSE IF sorted[1].s > x.s THEN <<sorted[1]>> \o InsertTiesFirst(Tail(sorted), x)
    ELSE <<x>> \o sorted

RECURSIVE InsertByScore(_, _)
\* x placed after every element whose score is not lower
InsertByScore(sorted, x) ==
    IF sorted = <<>> THEN <<x>>
    ELSE IF sorted[1].s >= x.s THEN <<sorted[1]>> \o InsertByScore(Tail(sorted), x)
    ELSE <<x>> \o sorted

RECURSIVE SortByScore(_)
\* line 85: sort((a,b) => b.s - a.s), which is stable
SortByScore(xs) ==
    IF xs = <<>> THEN <<>>
    ELSE InsertByScore(SortByScore(SubSeq(xs, 1, Len(xs) - 1)), xs[Len(xs)])

\* line 86: Math.max(1, Number(top_k))
Limit(top_k) == Max(1, top_k)

\* a ranker without the filter step of line 84
RankUnfiltered(its, filters, qTokens, top_k, t) ==
    LET scored == [i \in 1..Len(its) |-> [it |-> its[i], s |-> Score(its[i], filters, qTokens, t)]]
    IN  Slice(SortByScore(scored), Limit(top_k))

\* a ranker that remembers what the call before it returned and leaves it out
RankUnseen(its, filters, qTokens, top_k, t) ==
    LET scored == [i \in 1..Len(its) |-> [it |-> its[i], s |-> Score(its[i], filters, qTokens, t)]]
        kept == SelectSeq(scored, LAMBDA x : x.s >= 0 /\ x.it \notin Range(prev.top))
    IN  Slice(SortByScore(kept), Limit(top_k))

\* lines 83-86
Rank(its, filters, qTokens, top_k, t) ==
    LET scored == [i \in 1..Len(its) |-> [it |-> its[i], s |-> Score(its[i], filters, qTokens, t)]]
        kept == SelectSeq(scored, LAMBDA x : x.s >= 0)
    IN  Slice(SortByScore(kept), Limit(top_k))

-----------------------------------------------------------------------------
(* Page texts: the page a text was taken from and its length *)

EmptyText == [page |-> "", len |-> 0]

\* text.slice(0, n)
SliceText(text, n) == [text EXCEPT !.len = Min(n, text.len)]

\* stripHtml: what is left of a page once scripts, styles and tags are gone
StripHtml(page) == [page |-> page.url, len |-> page.visible]

\* lines 15-21: outcome is "fail" (fetch or text() rejects) or the page served
FetchText(url, outcome) ==
    IF outcome.kind = "fail" THEN EmptyText
    ELSE SliceText(StripHtml(outcome), PageCap)

\* lines 93-95: one entry per ranked item; failing holds the positions whose fetch fails
\* a fetch for every ranked item, with or without a url
FetchCallsEveryItem(topv) == [i \in 1..Len(topv) |-> topv[i].url]

\* lines 93-94: fetchText is called for the ranked items that have a url
FetchCalls(topv) == SelectSeq([i \in 1..Len(topv) |-> topv[i].url], LAMBDA u : u # "")

FetchAll(topv, failing, visible) ==
    [i \in 1..Len(topv) |->
        [i |-> i, url |-> topv[i].url,
         text |-> IF topv[i].url # ""
                  THEN FetchText(topv[i].url,
                                 IF i \in failing
                                 THEN [kind |-> "fail", url |-> topv[i].url, visible |-> 0]
                                 ELSE [kind |-> "page", url |-> topv[i].url, visible |-> visible])
                  ELSE EmptyText]]

NoExtract == [has |-> FALSE, text |-> EmptyText]

\* lines 99-104: one entry of the context block
Block(r, i, remote, fetchedv) ==
    [n |-> i,
     title |-> r.title,
     src |-> IF r.source # <<>> THEN r.source ELSE r.kind,
     date |-> EffectiveDate(r),
     sum |-> Slice(CollapseSpaces(IF r.summary # <<>> THEN r.summary ELSE r.abstract), SummaryCap),
     url |-> r.url,
     ext |-> IF remote /\ i <= Len(fetchedv) /\ fetchedv[i].text.len > 0
             THEN [has |-> TRUE, text |-> SliceText(fetchedv[i].text, ExtractCap)]
             ELSE NoExtract]

\* an assembler that leaves out the items whose page gave no text
BuildBlocksOfFetched(topv, remote, fetchedv) ==
    LET kept == SelectSeq([i \in 1..Len(topv) |-> i],
                          LAMBDA i : ~remote \/ fetchedv[i].text.len > 0)
    IN  [k \in 1..Len(kept) |-> Block(topv[kept[k]], k, remote, fetchedv)]

BuildBlocks(topv, remote, fetchedv) ==
    [i \in 1..Len(topv) |-> Block(topv[i], i, remote, fetchedv)]

\* lines 111-127: the messages sent to the provider
SystemTurn == [role |-> "system", kind |-> "directive", content |-> <<>>, context |-> <<>>]

FinalTurn(query, blks) ==
    [role |-> "user", kind |-> "question", content |-> query, context |-> blks]

\* a prompt that passes every earlier turn on, system turns included
ProviderMessagesUnfiltered(messages, query, blks) ==
    <<SystemTurn>>
    \o [i \in 1..Len(messages) |->
          [role |-> messages[i].role, kind |-> "turn", content |-> messages[i].content,
           context |-> <<>>]]
    \o <<FinalTurn(query, blks)>>

ProviderMessages(messages, query, blks) ==
    <<SystemTurn>>
    \o [i \in 1..Len(SelectSeq(messages, LAMBDA m : m.role # "system")) |->
          LET m == SelectSeq(messages, LAMBDA x : x.role # "system")[i]
          IN  [role |-> m.role, kind |-> "turn", content |-> m.content, context |-> <<>>]]
    \o <<FinalTurn(query, blks)>>

-----------------------------------------------------------------------------
(* Bounds and the inputs drawn within them *)

MaxMsgs == 2
MaxTopK == 2
MaxAttachments == 5
FirstDay == 100
MaxTicks == 1

sAI == <<"a", "i">>
sLaw == <<"l", "a", "w">>
sEnergy == <<"e", "n", "e", "r", "g", "y">>
sPrivacy == <<"p", "r", "i", "v", "a", "c", "y">>
sEP == <<"E", "P">>

SeqsUpTo(S, n) == UNION {[1..k -> S] : k \in 0..n}

\* messages: a question, an empty user turn, an assistant turn, a system turn
UserAsk == [role |-> "user", content |-> <<"A", "I", " ", " ", "l", "a", "w">>]
UserEmpty == [role |-> "user", content |-> <<>>]
AssistantTurn == [role |-> "assistant", content |-> <<"a", "c", "t">>]
SystemNote == [role |-> "system", content |-> <<"e", "p">>]

MessageChoices == SeqsUpTo({UserAsk, UserEmpty, AssistantTurn, SystemNote}, MaxMsgs)

\* below 1, at 1, above 1, and the default an absent top_k gets on line 33
TopKChoices == {-1, 0, 1, MaxTopK, DefaultTopK}

NoFilters == [sources |-> <<>>, categories |-> <<>>, tags |-> <<>>, date_from_days |-> 0]

FilterChoices ==
    { NoFilters,
      [NoFilters EXCEPT !.tags = <<sAI, sLaw>>],
      [NoFilters EXCEPT !.categories = <<sLaw, sEnergy>>],
      [NoFilters EXCEPT !.tags = <<sEnergy>>],
      [NoFilters EXCEPT !.sources = <<sEP, sOther>>, !.date_from_days = 14],
      [NoFilters EXCEPT !.tags = <<sPrivacy>>] }

\* n attachments, each longer than any cap
Attachments(n) == [i \in 1..n |-> [name |-> i, text |-> [page |-> "file", len |-> 2500]]]

AttachmentChoices == {Attachments(0), Attachments(MaxAttachments)}

\* the handler never reads attachments: requests that carry them vary in
\* their messages and in remote only
Bodies ==
    [messages : MessageChoices, top_k : TopKChoices, filters : FilterChoices,
     remote : BOOLEAN, attachments : {Attachments(0)}]
    \cup [messages : MessageChoices, top_k : {DefaultTopK}, filters : {NoFilters},
          remote : BOOLEAN, attachments : AttachmentChoices]

EmptyBody ==
    [messages |-> <<>>, top_k |-> DefaultTopK, filters |-> NoFilters,
     remote |-> FALSE, attachments |-> <<>>]

\* the corpus the data host serves
RawItem ==
    [title |-> <<>>, summary |-> <<>>, abstract |-> <<>>, tags |-> <<>>,
     categories |-> <<>>, source |-> <<>>, added |-> NoDate, date |-> NoDate,
     url |-> "", url_html |-> "", kind |-> <<>>]

PostsServed ==
    << [RawItem EXCEPT !.title = <<"A", "I", " ", "A", "c", "t">>, !.summary = sLaw,
                       !.tags = <<sAI, sLaw>>, !.source = sEP,
                       !.added = OnDay(FirstDay - 7), !.url = "u1"],
       [RawItem EXCEPT !.title = <<"a", "c", "t">>, !.tags = <<sAI>>] >>

ReportsServed ==
    << [RawItem EXCEPT !.title = sLaw, !.abstract = <<"a", "i", " ", " ", "e", "p">>,
                       !.tags = <<sLaw>>, !.categories = <<sAI, sEnergy>>,
                       !.date = OnDay(FirstDay - 30), !.url = "x1", !.url_html = "h1"],
       [RawItem EXCEPT !.title = sEnergy, !.tags = <<sEnergy, sLaw>>,
                       !.date = BadDate, !.url = "x2"] >>

LoadOutcomes == {"fail", "served"}

ProviderOutcomes == {"reject", "undecodable", "nochoices", "empty", "content"}

NotLoaded == [posts |-> "none", reports |-> "none"]

\* answer: null, or the text the provider returned
NullAnswer == "null"
NoResponse == [status |-> 0, body |-> "none", answer |-> NullAnswer, results |-> <<>>]

\* before any request has been answered
NoPrev == [seen |-> FALSE, body |-> EmptyBody, loaded |-> NotLoaded, now |-> 0,
           top |-> <<>>, response |-> NoResponse]

\* no request of the page has been answered
NoAnswer == [id |-> 0, query |-> <<>>]

\* the page as it is before its script has done anything, API_BASE not set
ClientAtRest ==
    /\ apiBase = FALSE
    /\ listeners = 0
    /\ qValue = <<>>
    /\ askChecked = FALSE
    /\ askTimer = FALSE
    /\ issued = 0
    /\ inFlight = {}
    /\ arrivedOk = {}
    /\ answerHidden = TRUE
    /\ answer = NoAnswer

-----------------------------------------------------------------------------
(* The handler *)

Init ==
    /\ pc = "idle"
    /\ now = FirstDay
    /\ apiKey \in BOOLEAN
    /\ req = [method |-> "", body |-> EmptyBody]
    /\ posts = <<>>
    /\ reports = <<>>
    /\ items = <<>>
    /\ q = <<>>
    /\ ranked = <<>>
    /\ top = <<>>
    /\ fetched = <<>>
    /\ pageFetches = <<>>
    /\ blocks = <<>>
    /\ provCalls = 0
    /\ provReq = <<>>
    /\ provReply = "none"
    /\ loaded = NotLoaded
    /\ response = NoResponse
    /\ prev = NoPrev
    /\ ClientAtRest

\* lines 27-28: OPTIONS and every other method but POST end here
ReceiveOther ==
    /\ pc = "idle"
    /\ \E m \in {"OPTIONS", "GET"} :
        /\ req' = [method |-> m, body |-> EmptyBody]
        /\ response' = IF m = "OPTIONS"
                       THEN [NoResponse EXCEPT !.status = 204]
                       ELSE [NoResponse EXCEPT !.status = 405, !.body = "error"]
    /\ pc' = "done"
    /\ UNCHANGED <<clientVars, now, apiKey, prev, posts, reports, items, q, ranked, top, fetched,
                   pageFetches, blocks, provCalls, provReq, provReply, loaded>>

\* lines 30-42: a POST is read and the two collections are asked for
ReceivePost ==
    /\ pc = "idle"
    /\ \E b \in Bodies : req' = [method |-> "POST", body |-> b]
    /\ pc' = "load"
    /\ UNCHANGED <<clientVars, now, apiKey, prev, posts, reports, items, q, ranked, top, fetched,
                   pageFetches, blocks, provCalls, provReq, provReply, loaded, response>>

\* a handler that calls the provider whether or not a key is set
AssembleAndCall(query, topv, fetchedv) ==
    /\ blocks' = BuildBlocks(topv, req.body.remote, fetchedv)
    /\ provReq' = ProviderMessages(req.body.messages, query, blocks')
    /\ provCalls' = provCalls + 1
    /\ pc' = "provider"
    /\ UNCHANGED response

\* lines 98-132 up to the provider's reply: the context block, then either the
\* answer-less response or the call to the provider
Assemble(query, topv, fetchedv) ==
    /\ blocks' = BuildBlocks(topv, req.body.remote, fetchedv)
    /\ IF ~apiKey
       THEN /\ response' = [status |-> 200, body |-> "answer", answer |-> NullAnswer,
                             results |-> topv]
            /\ pc' = "done"
            /\ UNCHANGED <<provCalls, provReq>>
       ELSE /\ provReq' = ProviderMessages(req.body.messages, query, blocks')
            /\ provCalls' = provCalls + 1
            /\ pc' = "provider"
            /\ UNCHANGED response

\* lines 40-41: fetch(...).then(r => r.json()).catch(() => [])
Loaded(outcome, served) == IF outcome = "fail" THEN <<>> ELSE served

\* lines 39-96: both collection fetches have settled
LoadCorpus ==
    /\ pc = "load"
    /\ \E po \in LoadOutcomes, ro \in LoadOutcomes :
        /\ loaded' = [posts |-> po, reports |-> ro]
        /\ posts' = Loaded(po, PostsServed)
        /\ reports' = Loaded(ro, ReportsServed)
    /\ items' = BuildItems(posts', reports')
    /\ q' = QueryOf(req.body.messages)
    /\ ranked' = Rank(items', req.body.filters, QTokens(q'), req.body.top_k, now)
    /\ top' = [i \in 1..Len(ranked') |-> ranked'[i].it]
    /\ IF req.body.remote
       THEN /\ pageFetches' = FetchCalls(top')
            /\ pc' = "enrich"
            /\ UNCHANGED <<fetched, blocks, provCalls, provReq, response>>
       ELSE /\ Assemble(q', top', <<>>)
            /\ UNCHANGED <<fetched, pageFetches>>
    /\ UNCHANGED <<clientVars, now, apiKey, prev, req, provReply>>

\* lines 93-96: every page fetch has settled, each on its own
Enrich ==
    /\ pc = "enrich"
    /\ \E failing \in SUBSET {i \in 1..Len(top) : top[i].url # ""} :
        fetched' = FetchAll(top, failing, 9000)
    /\ Assemble(q, top, fetched')
    /\ UNCHANGED <<clientVars, now, apiKey, prev, req, posts, reports, items, q, ranked, top, pageFetches,
                   provReply, loaded>>

\* lines 129-137: a rejected fetch or an undecodable body throws into the catch
\* of line 134; a body without choices[0].message.content gives a null answer
Reply(o, topv) ==
    IF o \in {"reject", "undecodable"}
    THEN [status |-> 500, body |-> "error", answer |-> NullAnswer, results |-> <<>>]
    ELSE [status |-> 200, body |-> "answer",
          answer |-> IF o = "content" THEN "text" ELSE NullAnswer,
          results |-> topv]

\* lines 121-137: the provider call has settled
ProviderSettles ==
    /\ pc = "provider"
    /\ \E o \in ProviderOutcomes :
        /\ provReply' = o
        /\ response' = Reply(o, top)
    /\ pc' = "done"
    /\ UNCHANGED <<clientVars, now, apiKey, prev, req, posts, reports, items, q, ranked, top, fetched,
                   pageFetches, blocks, provCalls, provReq, loaded>>

\* requests share nothing: the next one starts from scratch
StartAfresh ==
    /\ pc' = "idle"
    /\ req' = [method |-> "", body |-> EmptyBody]
    /\ posts' = <<>>
    /\ reports' = <<>>
    /\ items' = <<>>
    /\ q' = <<>>
    /\ ranked' = <<>>
    /\ top' = <<>>
    /\ fetched' = <<>>
    /\ pageFetches' = <<>>
    /\ blocks' = <<>>
    /\ provCalls' = 0
    /\ provReq' = <<>>
    /\ provReply' = "none"
    /\ loaded' = NotLoaded
    /\ response' = NoResponse

NextRequest ==
    /\ pc = "done"
    /\ StartAfresh
    /\ UNCHANGED <<clientVars, now, apiKey, prev>>

Next ==
    \/ ReceiveOther
    \/ ReceivePost
    \/ LoadCorpus
    \/ Enrich
    \/ ProviderSettles
    \/ NextRequest

Spec == Init /\ [][Next]_vars

-----------------------------------------------------------------------------
(* Properties *)

Answered == req.method = "POST" /\ pc = "done"
Retrieved == req.method = "POST" /\ pc \in {"enrich", "provider", "done"}
Assembled == req.method = "POST" /\ pc \in {"provider", "done"}

\* the items of the corpus that the request's filters let through
Qualifying == {i \in 1..Len(items) : Passes(items[i], req.body.filters, now)}

\* the one source of an error response to a POST: the provider call threw
ErrorOnlyFromProviderCall ==
    (req.method = "POST" /\ response.status = 500) => provReply \in {"reject", "undecodable"}

\* C1: without a credential the provider is never called, and a POST that
\* has been answered got status 200, a null answer and the ranked items
C1_NoCredentialNullAnswer ==
    ~apiKey =>
        /\ provCalls = 0
        /\ provReq = <<>>
        /\ pc # "provider"
        /\ Answered =>
            /\ response.status = 200
            /\ response.body = "answer"
            /\ response.answer = NullAnswer
            /\ response.results = [i \in 1..Len(ranked) |-> ranked[i].it]

C1_Witness ==
    ~apiKey /\ Answered /\ req.body.remote /\ Len(response.results) >= 2

\* C2: with a credential, a provider call that fails (transport error,
\* undecodable body) or returns no content is answered with status 200, a
\* null answer and the ranked results, never with a 500
C2_ProviderFailureAbsorbed ==
    (apiKey /\ Answered /\ provReply \in {"reject", "undecodable", "nochoices", "empty"}) =>
        /\ response.status = 200
        /\ response.answer = NullAnswer
        /\ response.results = top

\* C3: a failed collection fetch is replaced by an empty sequence for that
\* collection only, the request is answered without an error, results come
\* from what did load, and are empty when both fetches failed
C3_CollectionFailureAbsorbed ==
    (Answered /\ "fail" \in {loaded.posts, loaded.reports}) =>
        /\ posts = (IF loaded.posts = "fail" THEN <<>> ELSE PostsServed)
        /\ reports = (IF loaded.reports = "fail" THEN <<>> ELSE ReportsServed)
        /\ response.status = 200
        /\ response.results =
             [i \in 1..Len(ranked) |-> ranked[i].it]
        /\ ranked = Rank(BuildItems(posts, reports), req.body.filters, QTokens(q),
                         req.body.top_k, now)
        /\ (loaded.posts = "fail" /\ loaded.reports = "fail") => response.results = <<>>

\* C4: whatever top_k is (0 and negatives included), an answered request has
\* at least one result when some item passes the filters, and has no result
\* and no error when none passes
C4_TopKClampedToOne ==
    Answered =>
        /\ Qualifying # {} => Len(response.results) >= 1
        /\ Qualifying = {} => (response.results = <<>> /\ response.status = 200)

\* C5: the ranked result set has at most max(1, top_k) items and holds no
\* item with a negative score, that is no item the filters reject
C5_RankBounded ==
    Retrieved =>
        /\ Len(top) <= (IF req.body.top_k > 1 THEN req.body.top_k ELSE 1)
        /\ Len(ranked) = Len(top)
        /\ \A i \in 1..Len(top) :
            /\ ranked[i].it = top[i]
            /\ ranked[i].s >= 0
            /\ \E k \in Qualifying : items[k] = top[i]
        /\ response.status = 200 => response.results = top

C5_Witness ==
    /\ Answered
    /\ response.status = 200
    /\ Len(top) = req.body.top_k
    /\ Cardinality(Qualifying) > Len(top)
    /\ Cardinality(Qualifying) < Len(items)

\* C6: an item that lacks any one of the required tags or categories is
\* excluded from the results, even if it has the other required values
C6_StrictConjunction ==
    Retrieved =>
        \A i \in 1..Len(items) :
            (\E v \in Range(req.body.filters.tags) \cup Range(req.body.filters.categories) :
                v \notin Range(items[i].tags) \cup Range(items[i].categories))
            => /\ items[i] \notin Range(top)
               /\ items[i] \notin Range(response.results)

C6_Witness ==
    /\ Answered
    /\ response.results # <<>>
    /\ \E i \in 1..Len(items) :
        LET required == Range(req.body.filters.tags) \cup Range(req.body.filters.categories)
            has == Range(items[i].tags) \cup Range(items[i].categories)
        IN  /\ required \cap has # {}
            /\ required \ has # {}
            /\ items[i] \notin Range(response.results)

\* C7 as stated: whenever the messages hold a user turn, the query used for
\* scoring and for the question of the final prompt is the content of the
\* last user turn
C7_QueryIsLastUserTurn ==
    (Retrieved /\ \E i \in 1..Len(req.body.messages) : req.body.messages[i].role = "user") =>
        LET ms == req.body.messages
            last == CHOOSE i \in 1..Len(ms) :
                        /\ ms[i].role = "user"
                        /\ \A j \in (i + 1)..Len(ms) : ms[j].role # "user"
        IN  /\ q = ms[last].content
            /\ provCalls > 0 => provReq[Len(provReq)].content = ms[last].content

\* C7 as amended: the query is the content of the last user turn when that
\* content is not empty; otherwise it is the content of the last message,
\* whatever its role, and empty when there is none. That query scores the
\* items and is the question of the final prompt.
C7_QueryWithFallback ==
    Retrieved =>
        LET ms == req.body.messages
            users == {i \in 1..Len(ms) : ms[i].role = "user"}
            last == CHOOSE i \in users : \A j \in users : j <= i
            expected == IF users # {} /\ ms[last].content # <<>> THEN ms[last].content
                        ELSE IF ms # <<>> THEN ms[Len(ms)].content
                        ELSE <<>>
        IN  /\ q = expected
            /\ ranked = Rank(items, req.body.filters, SplitWords(ToLowerCase(expected)),
                             req.body.top_k, now)
            /\ provCalls > 0 =>
                /\ provReq[Len(provReq)].kind = "question"
                /\ provReq[Len(provReq)].content = expected

C7_Witness ==
    /\ Answered
    /\ provCalls > 0
    /\ req.body.messages = <<UserAsk, AssistantTurn>>
    /\ q = UserAsk.content
    /\ top # <<>>

\* C8: the entries of the context block are numbered 1..N without a gap, in
\* ranked order: entry i is the i-th ranked item and the i-th result, with
\* enrichment off, on, or on with failed fetches
C8_CitationNumbers ==
    Assembled =>
        /\ Len(blocks) = Len(top)
        /\ \A i \in 1..Len(blocks) :
            /\ blocks[i].n = i
            /\ blocks[i].title = top[i].title
            /\ blocks[i].url = top[i].url
        /\ response.status = 200 => response.results = top
        /\ provCalls > 0 => provReq[Len(provReq)].context = blocks

C8_Witness ==
    /\ Answered
    /\ req.body.remote
    /\ Len(blocks) >= 3
    /\ \E i, j \in 1..Len(top) :
        /\ i < j
        /\ top[i].url # "" /\ fetched[i].text.len = 0
        /\ fetched[j].text.len > 0

\* C9: with enrichment on, a failed page fetch leaves the item in the
\* results at its rank, gives its entry no remote extract, leaves the other
\* entries' extracts as they are, and the request still succeeds
C9_FailedFetchIsolated ==
    (Answered /\ req.body.remote) =>
        \A i \in 1..Len(top) :
            (top[i].url # "" /\ fetched[i].text.len = 0) =>
                /\ response.status = 200
                /\ Len(response.results) >= i
                /\ response.results[i] = top[i]
                /\ ~blocks[i].ext.has
                /\ \A j \in 1..Len(top) :
                    fetched[j].text.len > 0 =>
                        /\ blocks[j].ext.has
                        /\ blocks[j].ext.text.page = top[j].url

\* C10: when the request carries attachments, the context block sent to the
\* provider holds, after the item entries, one entry for each of the first 4
\* attachments, tagged A1..A4, its text cut to 2000 characters
C10_AttachmentsInContext ==
    (Assembled /\ provCalls > 0 /\ req.body.attachments # <<>>) =>
        LET context == provReq[Len(provReq)].context
            n == Min(4, Len(req.body.attachments))
        IN  /\ Len(context) = Len(top) + n
            /\ \A k \in 1..n :
                /\ context[Len(top) + k].n = k
                /\ context[Len(top) + k].title = req.body.attachments[k].name
                /\ context[Len(top) + k].ext.text.len
                     = Min(2000, req.body.attachments[k].text.len)

-----------------------------------------------------------------------------
(* Requests whose body fields are absent, null or of another type.  A field *)
(* is described by its shape; the body the handler goes on with is what    *)
(* lines 31-35 and the coercions further down make of it.                  *)

MessagesShapes == {"absent", "null", "string", "array"}
TopKShapes == {"absent", "null", "string", "number"}
FiltersShapes == {"absent", "null", "string", "object"}
RemoteShapes == {"absent", "null", "string", "boolean"}
AttachmentsShapes == {"absent", "null"}

RawBodies ==
    [messages : MessagesShapes, top_k : TopKShapes, filters : FiltersShapes,
     remote : RemoteShapes, attachments : AttachmentsShapes]

\* lines 31-35: a destructuring default replaces an absent (undefined) field
\* only.  A string has neither findLast nor an element with a content, so
\* it gives the empty query; Number(null) is 0; a non-empty string is
\* truthy; a string has no sources, categories, tags or date_from_days
Destructured(raw) ==
    [messages |-> IF raw.messages = "array" THEN <<SystemNote, UserAsk>> ELSE <<>>,
     top_k |-> CASE raw.top_k = "absent" -> DefaultTopK
                 [] raw.top_k = "number" -> 1
                 [] OTHER -> 0,
     filters |-> IF raw.filters = "object"
                 THEN [NoFilters EXCEPT !.tags = <<sLaw>>]
                 ELSE NoFilters,
     remote |-> raw.remote \in {"string", "boolean"},
     attachments |-> <<>>]

\* line 50: null.findLast
ThrowsAtQuery(raw) == raw.messages = "null"

\* line 63: null.sources, once there is an item to score
ThrowsAtScore(raw, its) == raw.filters = "null" /\ its # <<>>

\* line 86: Number of a string that is no number is NaN, and slice(0, NaN)
\* is empty
RankRaw(raw, its, filters, qTokens, top_k, t) ==
    IF raw.top_k = "string" THEN <<>> ELSE Rank(its, filters, qTokens, top_k, t)

\* line 127: a string has no filter method
ThrowsAtCall(raw) == raw.messages = "string"

\* lines 134-137
Thrown == [status |-> 500, body |-> "error", answer |-> NullAnswer, results |-> <<>>]

ReceiveFields ==
    /\ pc = "idle"
    /\ \E raw \in RawBodies :
        req' = [method |-> "POST", body |-> Destructured(raw), raw |-> raw]
    /\ pc' = "load"
    /\ UNCHANGED <<clientVars, now, apiKey, prev, posts, reports, items, q, ranked, top, fetched,
                   pageFetches, blocks, provCalls, provReq, provReply, loaded, response>>

\* lines 98-132 up to the provider's reply, for a body of any shape
AssembleFields(query, topv, fetchedv) ==
    IF apiKey /\ ThrowsAtCall(req.raw)
    THEN /\ blocks' = BuildBlocks(topv, req.body.remote, fetchedv)
         /\ response' = Thrown
         /\ pc' = "done"
         /\ UNCHANGED <<provCalls, provReq>>
    ELSE Assemble(query, topv, fetchedv)

\* lines 39-96, for a body of any shape
LoadFields ==
    /\ pc = "load"
    /\ \E po \in LoadOutcomes, ro \in LoadOutcomes :
        /\ loaded' = [posts |-> po, reports |-> ro]
        /\ posts' = Loaded(po, PostsServed)
        /\ reports' = Loaded(ro, ReportsServed)
    /\ items' = BuildItems(posts', reports')
    /\ IF ThrowsAtQuery(req.raw) \/ ThrowsAtScore(req.raw, items')
       THEN /\ q' = <<>>
            /\ ranked' = <<>>
            /\ top' = <<>>
            /\ response' = Thrown
            /\ pc' = "done"
            /\ UNCHANGED <<fetched, pageFetches, blocks, provCalls, provReq>>
       ELSE /\ q' = QueryOf(req.body.messages)
            /\ ranked' = RankRaw(req.raw, items', req.body.filters, QTokens(q'),
                                 req.body.top_k, now)
            /\ top' = [i \in 1..Len(ranked') |-> ranked'[i].it]
            /\ IF req.body.remote
               THEN /\ pageFetches' = FetchCalls(top')
                    /\ pc' = "enrich"
                    /\ UNCHANGED <<fetched, blocks, provCalls, provReq, response>>
               ELSE /\ AssembleFields(q', top', <<>>)
                    /\ UNCHANGED <<fetched, pageFetches>>
    /\ UNCHANGED <<clientVars, now, apiKey, prev, req, provReply>>

EnrichFields ==
    /\ pc = "enrich"
    /\ \E failing \in SUBSET {i \in 1..Len(top) : top[i].url # ""} :
        fetched' = FetchAll(top, failing, 9000)
    /\ AssembleFields(q, top, fetched')
    /\ UNCHANGED <<clientVars, now, apiKey, prev, req, posts, reports, items, q, ranked, top, pageFetches,
                   provReply, loaded>>

NextFields ==
    \/ ReceiveFields
    \/ LoadFields
    \/ EnrichFields
    \/ ProviderSettles
    \/ NextRequest

SpecFields == Init /\ [][NextFields]_vars

\* the body the defaults of lines 31-35 give a request without fields
DefaultBody == Destructured([messages |-> "absent", top_k |-> "absent",
                             filters |-> "absent", remote |-> "absent",
                             attachments |-> "absent"])

\* what each field is processed as when every field that is not of its own
\* type takes its default
WithDefaults(raw) ==
    LET given == Destructured(raw)
    IN  [messages |-> IF raw.messages = "array" THEN given.messages ELSE DefaultBody.messages,
         top_k |-> IF raw.top_k = "number" THEN given.top_k ELSE DefaultBody.top_k,
         filters |-> IF raw.filters = "object" THEN given.filters ELSE DefaultBody.filters,
         remote |-> IF raw.remote = "boolean" THEN given.remote ELSE DefaultBody.remote]

\* C11: a POST whose fields are absent, null or of another type is answered
\* without an error, with the results that the default of each such field
\* gives (the provider's own failures apart)
C11_MalformedFieldsTakeDefaults ==
    (Answered /\ provReply \notin {"reject", "undecodable"}) =>
        LET body == WithDefaults(req.raw)
            byDefault == Rank(items, body.filters, QTokens(QueryOf(body.messages)),
                              body.top_k, now)
        IN  /\ response.status = 200
            /\ response.results = [i \in 1..Len(byDefault) |-> byDefault[i].it]
            /\ (~body.remote => pageFetches = <<>>)

-----------------------------------------------------------------------------
(* The same request made again: the clock moves on between requests, the   *)
(* corpus host serves the same snapshot, and what the request before was   *)
(* given and what it returned is kept for comparison.                      *)

\* requests without page fetching: with and without a question, with and
\* without a 7-day window, one result or the default number
RepeatBodies ==
    [messages : {<<>>, <<UserAsk>>},
     top_k : {1, DefaultTopK},
     filters : {NoFilters, [NoFilters EXCEPT !.date_from_days = 7]},
     remote : {FALSE},
     attachments : {<<>>}]

ReceiveRepeat ==
    /\ pc = "idle"
    /\ \E b \in RepeatBodies : req' = [method |-> "POST", body |-> b]
    /\ pc' = "load"
    /\ UNCHANGED <<clientVars, now, apiKey, prev, posts, reports, items, q, ranked, top, fetched,
                   pageFetches, blocks, provCalls, provReq, provReply, loaded, response>>

\* Date.now() (lines 58 and 77) is read anew by every request
Tick ==
    /\ pc = "idle"
    /\ now < FirstDay + MaxTicks
    /\ now' = now + 1
    /\ UNCHANGED <<clientVars, apiKey, prev, pc, req, posts, reports, items, q, ranked, top, fetched,
                   pageFetches, blocks, provCalls, provReq, provReply, loaded, response>>

NextRepeat ==
    /\ pc = "done"
    /\ prev' = [seen |-> TRUE, body |-> req.body, loaded |-> loaded, now |-> now,
                top |-> top, response |-> response]
    /\ StartAfresh
    /\ UNCHANGED <<clientVars, now, apiKey>>

NextAgain ==
    \/ ReceiveRepeat
    \/ Tick
    \/ LoadCorpus
    \/ ProviderSettles
    \/ NextRepeat

SpecRepeat == Init /\ [][NextAgain]_vars

\* this request is the one before it made again, against the same snapshot
SameCallAgain ==
    /\ req.method = "POST"
    /\ prev.seen
    /\ prev.body = req.body
    /\ prev.loaded = loaded
    /\ ~req.body.remote

BothReturnedResults == prev.response.body = "answer" /\ response.body = "answer"

-----------------------------------------------------------------------------
(* Filters, ordering and the building of the corpus *)

\* C13: an item whose tags lack a tag the filters require is not among the
\* results, whatever its categories hold
C13_TagCheckUsesTagsOnly ==
    Retrieved =>
        \A i \in 1..Len(items) :
            (\E tg \in Range(req.body.filters.tags) : tg \notin Range(items[i].tags))
                => items[i] \notin Range(top)

-----------------------------------------------------------------------------
(* The scorer on its own: one item, of any age, scored for a request *)

MaxAge == 22
MaxAhead == 2

\* dated from MaxAhead days ahead of the clock to MaxAge days behind it,
\* undated, and with a date that does not parse
ScoreDates ==
    {OnDay(FirstDay - a) : a \in (0 - MaxAhead)..MaxAge} \cup {NoDate, BadDate}

\* a post and a report of the corpus, each at every such date
ScoreItems ==
    {BuildItems(<<[PostsServed[1] EXCEPT !.added = d]>>, <<>>)[1] : d \in ScoreDates}
        \cup {BuildItems(<<>>, <<[ReportsServed[2] EXCEPT !.date = d]>>)[1] : d \in ScoreDates}

\* no window, a window of 14 days, and a window below zero
ScoreFilters ==
    {[f EXCEPT !.date_from_days = w] :
        f \in {NoFilters, [NoFilters EXCEPT !.tags = <<sEnergy>>]}, w \in {0, 14, -1}}

ScoreMessages ==
    { <<>>, <<UserAsk>>,
      <<[role |-> "user", content |-> sLaw]>>,
      <<[role |-> "user", content |-> <<"a", "c", "t">>]>> }

InitScore ==
    /\ pc = "score"
    /\ now = FirstDay
    /\ apiKey = FALSE
    /\ \E b \in [messages : ScoreMessages, top_k : {DefaultTopK}, filters : ScoreFilters,
                 remote : {FALSE}, attachments : {<<>>}] :
        req = [method |-> "POST", body |-> b]
    /\ posts = <<>>
    /\ reports = <<>>
    /\ \E it \in ScoreItems : items = <<it>>
    /\ q = <<>>
    /\ ranked = <<>>
    /\ top = <<>>
    /\ fetched = <<>>
    /\ pageFetches = <<>>
    /\ blocks = <<>>
    /\ provCalls = 0
    /\ provReq = <<>>
    /\ provReply = "none"
    /\ loaded = NotLoaded
    /\ response = NoResponse
    /\ prev = NoPrev
    /\ ClientAtRest

\* lines 50-82: the query is taken and the item scored
ScoreItem ==
    /\ pc = "score"
    /\ q' = QueryOf(req.body.messages)
    /\ ranked' = <<[it |-> items[1],
                    s |-> Score(items[1], req.body.filters, QTokens(q'), now)]>>
    /\ pc' = "scored"
    /\ UNCHANGED <<clientVars, now, apiKey, prev, req, posts, reports, items, top, fetched,
                   pageFetches, blocks, provCalls, provReq, provReply, loaded, response>>

SpecScore == InitScore /\ [][ScoreItem]_vars

Scored == pc = "scored"

\* what was scored, its date and its age in days
ScoredItem == ranked[1].it
ScoredDate == EffectiveDate(ScoredItem)
ScoredAge == now - ScoredDate.day

\* the source, category and tag checks let the item through
OtherChecksPass ==
    Passes(ScoredItem, [req.body.filters EXCEPT !.date_from_days = 0], now)

\* C14: the recency check rejects an item only when the window is positive,
\* the item has an effective date, and that date is earlier than now minus
\* the window
C14_RecencyRejectsOnlyOlder ==
    (Scored /\ OtherChecksPass /\ ranked[1].s < 0) =>
        /\ req.body.filters.date_from_days > 0
        /\ ScoredDate.kind = "iso"
        /\ ScoredDate.day < now - req.body.filters.date_from_days

\* the query terms found in the haystack of what was scored
ScoredHits == TermHits(ScoredItem, QTokens(q))

\* C16: an item dated exactly 7 days before now gets 2 on top of its
\* matched terms, one dated 21 days or more before now gets nothing, and one
\* whose date does not parse gets nothing and loses nothing
C16_BonusBoundaries ==
    (Scored /\ ranked[1].s >= 0) =>
        /\ (ScoredDate.kind = "iso" /\ ScoredAge = 7) => ranked[1].s = ScoredHits + 2
        /\ (ScoredDate.kind = "iso" /\ ScoredAge >= 21) => ranked[1].s = ScoredHits
        /\ ScoredDate.kind = "bad" => ranked[1].s = ScoredHits

C16_Witness ==
    /\ Scored /\ ranked[1].s >= 0
    /\ ScoredDate.kind = "iso" /\ ScoredAge = 7
    /\ ScoredHits = 2
    /\ ranked[1].s = 4

\* terms a query may be extended by
MoreTerms == {sAI, sLaw, sEnergy, sEP, <<"a", "c">>}

\* C17: adding to the query a term that occurs in the item's haystack never
\* lowers the score of an item that passes the filters
C17_MoreOverlapNeverLowers ==
    (Scored /\ ranked[1].s >= 0) =>
        \A term \in MoreTerms :
            Includes(Haystack(ScoredItem), ToLowerCase(term)) =>
                Score(ScoredItem, req.body.filters, QTokens(q \o <<" ">> \o term), now)
                    >= ranked[1].s

C17_Witness ==
    /\ Scored /\ ranked[1].s >= 0
    /\ q = sLaw
    /\ Includes(Haystack(ScoredItem), ToLowerCase(sEP))
    /\ Score(ScoredItem, req.body.filters, QTokens(q \o <<" ">> \o sEP), now) = ranked[1].s + 1

\* where an item stands in the corpus: posts in the order served, then
\* reports in the order served
CorpusPosition(it) == CHOOSE i \in 1..Len(items) : items[i] = it

\* C15: results are in order of score, highest first; items of equal score
\* are in corpus order, posts before reports and each collection in the order
\* it was served; and no item left out scores higher than one returned
C15_OrderedByScoreThenCorpus ==
    Retrieved =>
        LET terms == QTokens(q)
            scoreOf == [n \in 1..Len(items) |-> Score(items[n], req.body.filters, terms, now)]
            at == [k \in 1..Len(ranked) |-> CorpusPosition(ranked[k].it)]
        IN  /\ \A i, j \in 1..Len(ranked) :
                i < j =>
                    /\ ranked[i].s >= ranked[j].s
                    /\ ranked[i].s = ranked[j].s =>
                        /\ at[i] < at[j]
                        /\ ~(ranked[i].it.kind = sReport /\ ranked[j].it.kind = sPost)
            /\ \A k \in 1..Len(ranked) : ranked[k].s = scoreOf[at[k]]
            /\ \A n \in 1..Len(items) :
                (scoreOf[n] >= 0 /\ items[n] \notin Range(top)) =>
                    \A k \in 1..Len(ranked) :
                        \/ ranked[k].s > scoreOf[n]
                        \/ ranked[k].s = scoreOf[n] /\ at[k] < n
            /\ Len(items) = Len(posts) + Len(reports)
            /\ \A i \in 1..Len(posts) :
                items[i].kind = sPost /\ items[i].title = posts[i].title
            /\ \A i \in 1..Len(reports) :
                /\ items[Len(posts) + i].kind = sReport
                /\ items[Len(posts) + i].title = reports[i].title

\* a post and a report of equal score, both returned, and another tie among
\* the reports
C15_Witness ==
    /\ Retrieved
    /\ Len(ranked) = 4
    /\ ranked[1].s > ranked[2].s
    /\ ranked[3].s = ranked[4].s
    /\ ranked[3].it.kind = sPost /\ ranked[4].it.kind = sReport

\* C18: a report becomes an item of kind report whose url is its url_html
\* when it has one and its own url when it has none; a post becomes an item
\* of kind post with its own url
C18_KindAndUrl ==
    Retrieved =>
        /\ Len(items) = Len(posts) + Len(reports)
        /\ \A i \in 1..Len(posts) :
            /\ items[i].kind = sPost
            /\ items[i].url = posts[i].url
        /\ \A i \in 1..Len(reports) :
            /\ items[Len(posts) + i].kind = sReport
            /\ items[Len(posts) + i].url =
                 (IF reports[i].url_html # "" THEN reports[i].url_html ELSE reports[i].url)

-----------------------------------------------------------------------------
(* The calls the handler makes *)

\* the turns of the request that are not system turns, by position
KeptTurns == {i \in 1..Len(req.body.messages) : req.body.messages[i].role # "system"}

\* the position in the request of the k-th of them
KeptTurn(k) == CHOOSE i \in KeptTurns : Cardinality({j \in KeptTurns : j <= i}) = k

\* C19: with a credential the provider is called exactly once per request,
\* with the system directive first, then the request's turns in their order
\* without the system turns, then one user turn that holds the question and
\* the context block
C19_OneCallOrderedMessages ==
    /\ provCalls <= 1
    /\ (provCalls = 1) = (apiKey /\ Assembled)
    /\ (apiKey /\ Assembled) =>
        /\ Len(provReq) = Cardinality(KeptTurns) + 2
        /\ provReq[1].role = "system" /\ provReq[1].kind = "directive"
        /\ \A k \in 1..Cardinality(KeptTurns) :
            /\ provReq[1 + k].kind = "turn"
            /\ provReq[1 + k].role = req.body.messages[KeptTurn(k)].role
            /\ provReq[1 + k].content = req.body.messages[KeptTurn(k)].content
        /\ provReq[Len(provReq)] =
             [role |-> "user", kind |-> "question", content |-> q, context |-> blocks]
        /\ \A k \in 2..Len(provReq) : provReq[k].role # "system"
        /\ \A k \in 1..(Len(provReq) - 1) : provReq[k].kind # "question"

C19_Witness ==
    /\ apiKey /\ Answered /\ provReply = "content"
    /\ req.body.messages = <<SystemNote, UserAsk>>
    /\ Len(provReq) = 3
    /\ Len(blocks) >= 2

\* C20: pages are fetched only for a request with remote set, once for each
\* ranked item that has a url, for no other item, and not again when a fetch
\* has failed
C20_PageFetchesOnlyWhenRemote ==
    /\ (req.method # "POST" \/ ~req.body.remote \/ ~Retrieved) => pageFetches = <<>>
    /\ (Retrieved /\ req.body.remote) =>
        /\ Len(pageFetches) = Cardinality({i \in 1..Len(top) : top[i].url # ""})
        /\ \A i \in 1..Len(top) :
            top[i].url # "" =>
                Cardinality({k \in 1..Len(pageFetches) : pageFetches[k] = top[i].url}) = 1
        /\ \A k \in 1..Len(pageFetches) : pageFetches[k] # ""
        /\ \A n \in 1..Len(items) :
            items[n] \notin Range(top) => items[n].url \notin Range(pageFetches)

\* a fetch that failed, an item without a url, and an item left out
C20_Witness ==
    /\ Answered /\ req.body.remote
    /\ Len(top) = 2 /\ Len(items) = 4
    /\ top[1].url # "" /\ top[2].url = ""
    /\ fetched[1].text = EmptyText
    /\ pageFetches = <<top[1].url>>
    /\ \E n \in 1..Len(items) : items[n] \notin Range(top) /\ items[n].url # ""

\* C21: what the date adds to the score of an item that passes the filters
\* is a whole number from 0 to 3, also when the item is dated after now
C21_BonusWithinRange ==
    (Scored /\ ranked[1].s >= 0) =>
        ranked[1].s - ScoredHits \in 0..BonusMax

-----------------------------------------------------------------------------
(* The page's Ask-AI search, docs/assets/app.js.  The endpoint it posts to *)
(* answers each request on its own; a response carries the request it      *)
(* answers.                                                                *)

MaxRequests == 3
MaxListeners == 2

RECURSIVE TrimStart(_)
TrimStart(s) == IF s # <<>> /\ s[1] = " " THEN TrimStart(Tail(s)) ELSE s

RECURSIVE TrimEnd(_)
TrimEnd(s) ==
    IF s # <<>> /\ s[Len(s)] = " " THEN TrimEnd(SubSeq(s, 1, Len(s) - 1)) ELSE s

\* s.trim()
Trim(s) == TrimEnd(TrimStart(s))

\* what the search box may hold: nothing, blanks, a term, a term and a blank
QueryInputs == {<<>>, <<" ">>, sAI, <<"l", "a", "w", " ">>}

InitClient ==
    /\ pc = "idle"
    /\ now = FirstDay
    /\ apiKey = FALSE
    /\ req = [method |-> "", body |-> EmptyBody]
    /\ posts = <<>>
    /\ reports = <<>>
    /\ items = <<>>
    /\ q = <<>>
    /\ ranked = <<>>
    /\ top = <<>>
    /\ fetched = <<>>
    /\ pageFetches = <<>>
    /\ blocks = <<>>
    /\ provCalls = 0
    /\ provReq = <<>>
    /\ provReply = "none"
    /\ loaded = NotLoaded
    /\ response = NoResponse
    /\ prev = NoPrev
    /\ apiBase \in BOOLEAN
    /\ listeners = 0
    /\ qValue = <<>>
    /\ askChecked = FALSE
    /\ askTimer = FALSE
    /\ issued = 0
    /\ inFlight = {}
    /\ arrivedOk = {}
    /\ answerHidden = TRUE
    /\ answer = NoAnswer

\* lines 206-217, up to the await of the fetch, run n times in a row with
\* the box checked or not and holding value
MaybeAskAi(n, checked, value) ==
    IF n = 0
    THEN UNCHANGED <<issued, inFlight, answerHidden>>
    ELSE IF ~checked \/ Trim(value) = <<>> \/ ~apiBase
    THEN /\ answerHidden' = TRUE
         /\ UNCHANGED <<issued, inFlight>>
    ELSE /\ issued + n <= MaxRequests
         /\ issued' = issued + n
         /\ inFlight' = inFlight \cup {[id |-> issued + k, query |-> Trim(value)] : k \in 1..n}
         /\ UNCHANGED answerHidden

\* lines 50-61: loadData, at start or after Refresh, has the data and calls
\* renderFilters, which adds an input and a change listener each time
DataLoaded ==
    /\ listeners < MaxListeners
    /\ listeners' = listeners + 1
    /\ UNCHANGED <<handlerVars, apiBase, qValue, askChecked, askTimer, issued, inFlight,
                   arrivedOk, answerHidden, answer>>

\* line 111: Clear empties the box, which fires no input event, and calls
\* renderFilters
ClearClicked ==
    /\ listeners > 0
    /\ listeners < MaxListeners
    /\ qValue' = <<>>
    /\ listeners' = listeners + 1
    /\ UNCHANGED <<handlerVars, apiBase, askChecked, askTimer, issued, inFlight,
                   arrivedOk, answerHidden, answer>>

\* lines 107 and 205: every input listener restarts the one timer
InputEdited ==
    /\ \E v \in QueryInputs \ {qValue} : qValue' = v
    /\ askTimer' = (IF listeners > 0 THEN TRUE ELSE askTimer)
    /\ UNCHANGED <<handlerVars, apiBase, listeners, askChecked, issued, inFlight,
                   arrivedOk, answerHidden, answer>>

\* line 108: every change listener calls maybeAskAi
AskAiChanged ==
    /\ askChecked' = ~askChecked
    /\ MaybeAskAi(listeners, askChecked', qValue)
    /\ UNCHANGED <<handlerVars, apiBase, listeners, qValue, askTimer, arrivedOk, answer>>

\* line 205: the timeout of 400 ms has passed
AskTimerFires ==
    /\ askTimer
    /\ askTimer' = FALSE
    /\ MaybeAskAi(1, askChecked, qValue)
    /\ UNCHANGED <<handlerVars, apiBase, listeners, qValue, askChecked, arrivedOk, answer>>

\* lines 217-223: the fetch of a request settles, in any order; a rejected
\* fetch, a status that is not ok and an undecodable body all end in the catch
ResponseArrives ==
    /\ \E r \in inFlight, ok \in BOOLEAN :
        /\ inFlight' = inFlight \ {r}
        /\ IF ok
           THEN /\ answerHidden' = FALSE
                /\ answer' = r
                /\ arrivedOk' = arrivedOk \cup {r}
           ELSE /\ answerHidden' = TRUE
                /\ UNCHANGED <<answer, arrivedOk>>
    /\ UNCHANGED <<handlerVars, apiBase, listeners, qValue, askChecked, askTimer, issued>>

NextClient ==
    \/ DataLoaded
    \/ ClearClicked
    \/ InputEdited
    \/ AskAiChanged
    \/ AskTimerFires
    \/ ResponseArrives

SpecClient == InitClient /\ [][NextClient]_vars

\* C22: once every request has settled and the most recently issued one was
\* answered, the answer and results on the page are those of that request,
\* so they answer its query: no response to an earlier request has taken
\* their place
C22_LatestAnswerShown ==
    inFlight = {} =>
        \A r \in arrivedOk : r.id = issued => answer.query = r.query

====
